---------------------------- MODULE Spec2Model ----------------------------
(***************************************************************************)
(* photo_organize: a directory walk that files media under                 *)
(* {output_root}/{year}/{month}/{isoformat}_{sha1}{ext}, guarded by a       *)
(* non-blocking advisory lock keyed by the input directory argument.       *)
(*                                                                         *)
(* A name (of a file or directory) is a sequence of one-character strings, *)
(* so that os.path.splitext, str.lower and the '%04d' formatting are       *)
(* computed character by character.  A path string is the sequence of its  *)
(* separators and names, "x/p/" being << x, SEP, p, SEP >>: two path        *)
(* strings are equal exactly when these sequences are, and os.path.join    *)
(* and os.path.split are computed on them as posixpath does on strings.    *)
(* The filesystem is a set of directories and a map from files to          *)
(* contents, both keyed by canonical paths (sequences of names).           *)
(***************************************************************************)
EXTENDS Integers, Sequences, FiniteSets, TLC

\* ------------------------------------------------------------ strings

\* os.sep as an element of a path string
SEP == <<"/">>

UpperCase ==
    <<"A","B","C","D","E","F","G","H","I","J","K","L","M",
      "N","O","P","Q","R","S","T","U","V","W","X","Y","Z">>

LowerCase ==
    <<"a","b","c","d","e","f","g","h","i","j","k","l","m",
      "n","o","p","q","r","s","t","u","v","w","x","y","z">>

LowerChar(c) ==
    IF \E i \in 1..Len(UpperCase) : UpperCase[i] = c
    THEN LowerCase[CHOOSE i \in 1..Len(UpperCase) : UpperCase[i] = c]
    ELSE c

\* str.lower()
Lower(s) == [i \in 1..Len(s) |-> LowerChar(s[i])]

RECURSIVE RFindFrom(_, _, _)
RFindFrom(s, x, i) ==
    IF i = 0 THEN 0 ELSE IF s[i] = x THEN i ELSE RFindFrom(s, x, i - 1)

\* str.rfind(x) + 1: the 1-based index of the last x, 0 when there is none
RFind(s, x) == RFindFrom(s, x, Len(s))

RECURSIVE RStrip(_, _)
\* str.rstrip(x)
RStrip(s, x) ==
    IF Len(s) > 0 /\ s[Len(s)] = x THEN RStrip(SubSeq(s, 1, Len(s) - 1), x) ELSE s

AllSep(s) == \A i \in 1..Len(s) : s[i] = SEP

\* posixpath.join(a, b)
Join(a, b) ==
    IF Len(b) > 0 /\ b[1] = SEP THEN b
    ELSE IF a = <<>> \/ a[Len(a)] = SEP THEN a \o b
    ELSE a \o <<SEP>> \o b

Join3(a, b, c) == Join(Join(a, b), c)

\* posixpath.split(p): <<head, tail>>
Split(p) ==
    LET i    == RFind(p, SEP)
        head == SubSeq(p, 1, i)
        tail == SubSeq(p, i + 1, Len(p))
    IN  IF head # <<>> /\ ~AllSep(head) THEN <<RStrip(head, SEP), tail>>
        ELSE <<head, tail>>

\* posixpath.splitext(p): <<root, ext>>, ext being the characters from the last
\* dot of the last name on; leading dots of the name are no extension
SplitExt(p) ==
    IF p = <<>> \/ p[Len(p)] = SEP THEN <<p, <<>> >>
    ELSE LET name     == p[Len(p)]
             dotIndex == RFind(name, ".")
         IN  IF \E k \in 1..(dotIndex - 1) : name[k] # "."
             THEN <<SubSeq(p, 1, Len(p) - 1) \o <<SubSeq(name, 1, dotIndex - 1)>>,
                    SubSeq(name, dotIndex, Len(name))>>
             ELSE <<p, <<>> >>

RECURSIVE ReplaceSep(_, _)
\* str.replace(os.sep, new): the characters of p with every separator replaced
ReplaceSep(p, new) ==
    IF p = <<>> THEN <<>>
    ELSE (IF Head(p) = SEP THEN <<new>> ELSE Head(p)) \o ReplaceSep(Tail(p), new)

DigitChar == <<"0","1","2","3","4","5","6","7","8","9">>

RECURSIVE Digits(_)
\* '%d' % n for n >= 0
Digits(n) ==
    IF n < 10 THEN <<DigitChar[n + 1]>>
    ELSE Digits(n \div 10) \o <<DigitChar[(n % 10) + 1]>>

RECURSIVE ZeroPad(_, _)
ZeroPad(s, w) == IF Len(s) >= w THEN s ELSE ZeroPad(<<"0">> \o s, w)

\* '%0<w>d' % n
Fmt0(n, w) == ZeroPad(Digits(n), w)

\* datetime.isoformat() of a datetime without microseconds or tzinfo
isoformat(dt) ==
    Fmt0(dt.year, 4) \o <<"-">> \o Fmt0(dt.month, 2) \o <<"-">> \o Fmt0(dt.day, 2)
    \o <<"T">> \o Fmt0(dt.hour, 2) \o <<":">> \o Fmt0(dt.minute, 2)
    \o <<":">> \o Fmt0(dt.second, 2)

\* ------------------------------------------------- path resolution

IsName(t) == t # SEP

\* the names of a path string
Parts(p) == SelectSeq(p, IsName)

\* the working directory of every invocation: /w
Cwd == << <<"w">> >>

\* the canonical path the kernel resolves a path string to
Canon(p) == IF Len(p) > 0 /\ p[1] = SEP THEN Parts(p) ELSE Cwd \o Parts(p)

Parent(cp) == SubSeq(cp, 1, Len(cp) - 1)

\* ------------------------------------------------------ file contents

\* A file content is a number standing for its bytes: 1..3 are media streams,
\* TextContent a text file, LogContent the rotating log.
MediaContents == {1, 2, 3}

TextContent == 8

LogContent == 9

\* What hachoir yields for Metadata.get('creation_date') on each content:
\* <<dt>> when the tag is there, <<>> when get_metadata()/get() raise ValueError.
creation_date(c) ==
    CASE c = 1 -> << [year |-> 2014, month |-> 6, day |-> 1,
                      hour |-> 10, minute |-> 0, second |-> 0] >>
      [] c = 3 -> << [year |-> 987, month |-> 11, day |-> 23,
                      hour |-> 9, minute |-> 5, second |-> 7] >>
      [] OTHER -> <<>>

\* hashlib.sha1 over 'blob <size>\0' + bytes: a digest that differs for
\* different contents (no collisions among the contents modelled).
file_sha1(c) == <<"h">> \o Digits(c)

supported_extensions ==
    { <<".","j","p","g">>, <<".","j","p","e","g">>, <<".","m","o","v">>,
      <<".","a","v","i">>, <<".","t","h","m">>, <<".","m","p","4">> }

\* ---------------------------------------------------------- filesystem
\* D is the set of directories, F the map from files to contents.

FPut(F, cp, c) == [q \in (DOMAIN F) \cup {cp} |-> IF q = cp THEN c ELSE F[q]]

FDel(F, cp) == [q \in (DOMAIN F) \ {cp} |-> F[q]]

isfile(F, p) == p # <<>> /\ Canon(p) \in DOMAIN F

isdir(D, p) == p # <<>> /\ Canon(p) \in D

exists(D, F, p) == isfile(F, p) \/ isdir(D, p)

Children(D, F, cp) == {q \in D \cup DOMAIN F : Len(q) = Len(cp) + 1 /\ Parent(q) = cp}

\* os.listdir(p): the names in directory p (p must be a directory)
listdir(D, F, p) == {q[Len(q)] : q \in Children(D, F, Canon(p))}

Prefixes(cp) == {SubSeq(cp, 1, k) : k \in 0..Len(cp)}

\* os.makedirs(p): [err, dirs]
makedirs(D, F, p) ==
    LET cp == Canon(p)
    IN  IF p = <<>> THEN [err |-> "ENOENT", dirs |-> D]
        ELSE IF cp \in D \cup DOMAIN F THEN [err |-> "EEXIST", dirs |-> D]
        ELSE IF \E q \in Prefixes(cp) : q \in DOMAIN F THEN [err |-> "ENOTDIR", dirs |-> D]
        ELSE [err |-> "ok", dirs |-> D \cup Prefixes(cp)]

\* os.rmdir(p): [err, dirs]
rmdir(D, F, p) ==
    LET cp == Canon(p)
    IN  IF p = <<>> THEN [err |-> "ENOENT", dirs |-> D]
        ELSE IF cp \in DOMAIN F THEN [err |-> "ENOTDIR", dirs |-> D]
        ELSE IF cp \notin D THEN [err |-> "ENOENT", dirs |-> D]
        ELSE IF cp = <<>> THEN [err |-> "EBUSY", dirs |-> D]
        ELSE IF Children(D, F, cp) # {} THEN [err |-> "ENOTEMPTY", dirs |-> D]
        ELSE [err |-> "ok", dirs |-> D \ {cp}]

\* os.remove(p): [err, files]
remove(F, p) ==
    IF isfile(F, p) THEN [err |-> "ok", files |-> FDel(F, Canon(p))]
    ELSE [err |-> "ENOENT", files |-> F]

basename(p) == Split(p)[2]

\* shutil.copy(src, dst): [err, files]
shutil_copy(D, F, src, dst) ==
    LET real_dst == IF isdir(D, dst) THEN Join(dst, basename(src)) ELSE dst
        cs       == Canon(src)
        cd       == Canon(real_dst)
    IN  IF src # <<>> /\ cs \in DOMAIN F /\ cs = cd
        THEN [err |-> "Error", files |-> F]           \* "are the same file"
        ELSE IF src = <<>> \/ cs \notin DOMAIN F \/ real_dst = <<>> \/ cd \in D
                \/ Parent(cd) \notin D
        THEN [err |-> "IOError", files |-> F]
        ELSE [err |-> "ok", files |-> FPut(F, cd, F[cs])]

\* shutil.move(src, dst): [err, files]; a rename, or copy2 + unlink across devices
shutil_move(D, F, src, dst) ==
    LET real_dst == IF isdir(D, dst) THEN Join(dst, basename(RStrip(src, SEP))) ELSE dst
        cs       == Canon(src)
        cd       == Canon(real_dst)
    IN  IF isdir(D, dst) /\ exists(D, F, real_dst)
        THEN [err |-> "Error", files |-> F]           \* "already exists"
        ELSE IF src = <<>> \/ cs \notin DOMAIN F \/ real_dst = <<>> \/ cd \in D
                \/ Parent(cd) \notin D
        THEN [err |-> "IOError", files |-> F]
        ELSE IF cs = cd
        THEN [err |-> "ok", files |-> F]              \* rename onto itself
        ELSE [err |-> "ok", files |-> FPut(FDel(F, cs), cd, F[cs])]

\* ------------------------------------------------- the per-file procedure

\* the extension of a path, lower-cased
extension_of(filepath) == Lower(SplitExt(filepath)[2])

\* a filter that lets every extension through
is_supported_any(extension) == TRUE

is_supported(extension) == extension \in supported_extensions

\* the destination directory with year and month unpadded, str(dt.year) and
\* str(dt.month), as photo_tools.py builds it
output_dirs_of_unpadded(output_root, dt) ==
    IF dt # <<>>
    THEN Join3(output_root, <<Digits(dt[1].year)>>, <<Digits(dt[1].month)>>)
    ELSE Join(output_root, << <<"n","o","_","m","e","t","a","d","a","t","a">> >>)

\* the destination directory of a file: dt is <<datetime>> or <<>> (None)
output_dirs_of(output_root, dt) ==
    IF dt # <<>>
    THEN Join3(output_root, <<Fmt0(dt[1].year, 4)>>, <<Fmt0(dt[1].month, 2)>>)
    ELSE Join(output_root, << <<"n","o","_","m","e","t","a","d","a","t","a">> >>)

destination_name_of(dt, sha_str, extension) ==
    IF dt # <<>>
    THEN isoformat(dt[1]) \o <<"_">> \o sha_str \o extension
    ELSE sha_str \o extension

destination_path_of(output_root, dt, sha_str, extension) ==
    Join(output_dirs_of(output_root, dt), <<destination_name_of(dt, sha_str, extension)>>)

\* the destination already holds a file with the same hash
is_duplicate(F, destination_path, sha_str) ==
    isfile(F, destination_path) /\ file_sha1(F[Canon(destination_path)]) = sha_str

\* the points of the per-file procedure at which an I/O error can be injected
FaultPoints == {"get_datetime", "file_sha1", "makedirs", "copy", "move", "remove"}

\* the destination directory created whether dry_run or not
ensure_output_dirs_always(a, D, F, output_dirs, fault) ==
    IF fault = "makedirs" THEN [raised |-> TRUE, dirs |-> D]
    ELSE LET r == makedirs(D, F, output_dirs)
         IN  [raised |-> r.err \notin {"ok", "EEXIST"}, dirs |-> r.dirs]

\* create the destination directory unless dry_run: [raised, dirs]
ensure_output_dirs(a, D, F, output_dirs, fault) ==
    IF a.dry_run THEN [raised |-> FALSE, dirs |-> D]
    ELSE IF fault = "makedirs" THEN [raised |-> TRUE, dirs |-> D]
    ELSE LET r == makedirs(D, F, output_dirs)
         IN  [raised |-> r.err \notin {"ok", "EEXIST"}, dirs |-> r.dirs]

\* move or copy the file unless dry_run: [err, files]
relocate(a, D, F, filepath, destination_path, fault) ==
    IF a.copy
    THEN IF a.dry_run THEN [err |-> "ok", files |-> F]
         ELSE IF fault = "copy" THEN [err |-> "IOError", files |-> F]
         ELSE shutil_copy(D, F, filepath, destination_path)
    ELSE IF a.dry_run THEN [err |-> "ok", files |-> F]
         ELSE IF fault = "move" THEN [err |-> "IOError", files |-> F]
         ELSE shutil_move(D, F, filepath, destination_path)

\* delete a duplicate's source unless dry_run: [err, files]
delete_duplicate(a, F, filepath, fault) ==
    IF a.dry_run THEN [err |-> "ok", files |-> F]
    ELSE IF fault = "remove" THEN [err |-> "OSError", files |-> F]
    ELSE remove(F, filepath)

Result(D, F, entry, kind, dup, c) ==
    [dirs |-> D, files |-> F, entry |-> entry, kind |-> kind, dup |-> dup, content |-> c]

\* One iteration of the loop over filenames, for arguments a on filesystem
\* (D, F): the filesystem after it, the ProcessedEntry yielded (<<>> or
\* <<entry>>), how the iteration ended ("unsupported": skipped for its
\* extension; "exploded": an exception reached the outer except clause;
\* "deleted": a duplicate under delete_duplicates; "delete_failed": the same,
\* os.remove having raised into the inner except clause; "relocated": moved or
\* copied, or would have been in a dry run), whether the file was a duplicate,
\* and the content that was hashed (0: none).
process_file(a, D, F, filepath, fault) ==
    LET extension == extension_of(filepath)
    IN  IF ~is_supported(extension)
        THEN Result(D, F, <<>>, "unsupported", FALSE, 0)
        ELSE IF fault \in {"get_datetime", "file_sha1"} \/ ~isfile(F, filepath)
        THEN Result(D, F, <<>>, "exploded", FALSE, 0)
        ELSE
        LET c                == F[Canon(filepath)]
            dt               == creation_date(c)
            sha_str          == file_sha1(c)
            output_dirs      == output_dirs_of(a.output_root, dt)
            destination_path == destination_path_of(a.output_root, dt, sha_str, extension)
            dup              == is_duplicate(F, destination_path, sha_str)
        IN  IF dup /\ a.delete_duplicates
            THEN LET rm == delete_duplicate(a, F, filepath, fault)
                 IN  Result(D, rm.files, <<>>,
                            IF rm.err = "ok" THEN "deleted" ELSE "delete_failed", TRUE, c)
            ELSE
            LET mk == ensure_output_dirs(a, D, F, output_dirs, fault)
                mv == relocate(a, mk.dirs, F, filepath, destination_path, fault)
            IN  IF mk.raised THEN Result(D, F, <<>>, "exploded", dup, c)
                ELSE IF mv.err # "ok" THEN Result(mk.dirs, F, <<>>, "exploded", dup, c)
                ELSE Result(mk.dirs, mv.files,
                            << [source |-> filepath, destination |-> destination_path] >>,
                            "relocated", dup, c)

\* an iteration's exception leaving organize(), as it would with no except
\* clause around the loop body
after_exception_raises == "raised"

\* where the loop goes after an iteration that raised: the except clause
\* logs and continues with the next filename
after_exception == "files"

next_pc(kind) == IF kind = "exploded" THEN after_exception ELSE "files"

\* ------------------------------------------------------------- state

\* the most injected I/O errors in one behaviour
MaxFaults == 1

\* the invocations: 1 and 2
Procs == {1, 2}

VARIABLES
    dirs,         \* the directories of the filesystem (canonical paths)
    files,        \* the files of the filesystem: canonical path -> content
    args,         \* per invocation: input_root, output_root, copy, dry_run, delete_duplicates
    held,         \* the advisory locks held: <<lock_path, invocation>>
    pc,           \* per invocation: where it is
    pending,      \* per invocation: the directories os.walk has still to list, next first
    dirpath,      \* per invocation: the directory being visited
    filenames,    \* per invocation: the filenames of dirpath still to examine
    path,         \* per invocation: the cleanup loop's path
    entries,      \* per invocation: the ProcessedEntry records yielded, in order
    exit_status,  \* per invocation: <<>> while running, <<status>> once exited
    lock_failed,  \* per invocation: LockAcquireError was raised
    nfaults,      \* the I/O errors injected so far
    last,         \* the step just taken: invocation, operation, file, outcome
    failed,       \* per invocation: the filepaths whose iteration raised
    examined,     \* per invocation: the filepaths the loop body ran on
    listed,       \* per invocation: the supported, visible filepaths os.walk listed
    rmdirs,       \* per invocation: the paths os.rmdir was called with
    dirs0,        \* the directories before the run
    files0        \* the files before the run

vars == <<dirs, files, args, held, pc, pending, dirpath, filenames, path, entries,
          exit_status, lock_failed, nfaults, last, failed, examined, listed, rmdirs,
          dirs0, files0>>

\* ------------------------------------------------------ initial states

\* the input directory is /w/x/p, named in one of these ways
InputForms ==
    { << <<"x">>, SEP, <<"p">> >>, << <<"x">>, SEP, <<"p">>, SEP >>,
      << SEP, <<"w">>, SEP, <<"x">>, SEP, <<"p">>, SEP >> }

\* the output directory: /w/o, or the input directory itself
OutputRoots == { << <<"o">> >>, << <<"x">>, SEP, <<"p">> >> }

InputDir == << <<"w">>, <<"x">>, <<"p">> >>

Jpg == <<".","j","p","g">>

\* The tree before a run: a.jpg in the input directory (content a),
\* s/b.JPG (content b, 0: absent), s/n.txt (n), the hidden .k.jpg (h), and content 1
\* already filed at its destination under output_root (pre).
InitialFiles(output_root, a, b, n, h, pre) ==
    LET pa   == InputDir \o << <<"a",".","j","p","g">> >>
        pb   == InputDir \o << <<"s">>, <<"b",".","J","P","G">> >>
        pn   == InputDir \o << <<"s">>, <<"n",".","t","x","t">> >>
        ph   == InputDir \o << <<".","k",".","j","p","g">> >>
        pd   == Canon(destination_path_of(output_root, creation_date(1), file_sha1(1), Jpg))
        here == (IF a # 0 THEN {pa} ELSE {}) \cup (IF b # 0 THEN {pb} ELSE {})
                \cup (IF n THEN {pn} ELSE {}) \cup (IF h THEN {ph} ELSE {})
                \cup (IF pre THEN {pd} ELSE {})
    IN  [q \in here |-> IF q = pa THEN a ELSE IF q = pb THEN b
                        ELSE IF q = pn THEN TextContent ELSE IF q = ph THEN 2 ELSE 1]

InitialDirs(F) ==
    {<<>>, Cwd, Parent(InputDir), InputDir, Canon(<< <<"o">> >>)}
    \cup UNION {Prefixes(Parent(q)) : q \in DOMAIN F}

Args(input_root, output_root, copy, dry_run, delete_duplicates) ==
    [input_root |-> input_root, output_root |-> output_root, copy |-> copy,
     dry_run |-> dry_run, delete_duplicates |-> delete_duplicates]

NoStep ==
    [p |-> 0, op |-> "none", src |-> <<>>, kind |-> "none", dup |-> FALSE, content |-> 0]

InitCommon ==
    /\ held = {}
    /\ dirpath = [p \in Procs |-> <<>>]
    /\ filenames = [p \in Procs |-> {}]
    /\ path = [p \in Procs |-> <<>>]
    /\ entries = [p \in Procs |-> <<>>]
    /\ exit_status = [p \in Procs |-> <<>>]
    /\ lock_failed = [p \in Procs |-> FALSE]
    /\ nfaults = 0
    /\ last = NoStep
    /\ failed = [p \in Procs |-> {}]
    /\ examined = [p \in Procs |-> {}]
    /\ listed = [p \in Procs |-> {}]
    /\ rmdirs = [p \in Procs |-> {}]
    /\ dirs0 = dirs
    /\ files0 = files

\* organize(input_root, output_root, ...) called directly by invocation 1, as
\* the tests call it
Init ==
    /\ \E input_root \in InputForms, output_root \in OutputRoots,
          copy \in BOOLEAN, dry_run \in BOOLEAN, delete_duplicates \in BOOLEAN :
          args = [p \in Procs |-> Args(input_root, output_root, copy, dry_run,
                                       delete_duplicates)]
    /\ \E a \in {1, 2}, b \in {0, 1, 3}, n \in BOOLEAN, h \in BOOLEAN, pre \in BOOLEAN :
          files = InitialFiles(args[1].output_root, a, b, n, h, pre)
    /\ dirs = InitialDirs(files)
    /\ pc = [p \in Procs |-> IF p = 1 THEN "walk" ELSE "idle"]
    /\ pending = [p \in Procs |-> IF p = 1 THEN <<args[1].input_root>> ELSE <<>>]
    /\ InitCommon

\* ------------------------------------------------------------- organize

Step(p, op, src, kind, dup, c) ==
    [p |-> p, op |-> op, src |-> src, kind |-> kind, dup |-> dup, content |-> c]

\* the orders in which a set of names can come out of os.listdir
Orders(S) == {o \in [1..Cardinality(S) -> S] : \A i, j \in 1..Cardinality(S) : o[i] = o[j] => i = j}

hidden(name) == name[1] = "."

\* os.walk yields the next directory: it is listed, hidden names are dropped,
\* and its subdirectories are queued before the directories already pending.
\* A pending directory that can no longer be listed is passed over.
walk_next(p) ==
    /\ pc[p] = "walk"
    /\ IF pending[p] = <<>>
       THEN /\ pc' = [pc EXCEPT ![p] = "done"]
            /\ UNCHANGED <<pending, dirpath, filenames, listed>>
       ELSE LET top == Head(pending[p])
            IN  IF ~isdir(dirs, top)
                THEN /\ pending' = [pending EXCEPT ![p] = Tail(pending[p])]
                     /\ UNCHANGED <<pc, dirpath, filenames, listed>>
                ELSE LET names    == listdir(dirs, files, top)
                         dirnames == {d \in names : isdir(dirs, Join(top, <<d>>)) /\ ~hidden(d)}
                         nondirs  == {f \in names : ~isdir(dirs, Join(top, <<f>>)) /\ ~hidden(f)}
                     IN  /\ \E order \in Orders(dirnames) :
                               pending' = [pending EXCEPT ![p] =
                                   [i \in 1..Len(order) |-> Join(top, <<order[i]>>)]
                                   \o Tail(pending[p])]
                         /\ dirpath' = [dirpath EXCEPT ![p] = top]
                         /\ filenames' = [filenames EXCEPT ![p] = nondirs]
                         /\ listed' = [listed EXCEPT ![p] = listed[p] \cup
                               {Join(top, <<f>>) : f \in {g \in nondirs :
                                    is_supported(extension_of(Join(top, <<g>>)))}}]
                         /\ pc' = [pc EXCEPT ![p] = "files"]
    /\ last' = Step(p, "walk", <<>>, "none", FALSE, 0)
    /\ UNCHANGED <<dirs, files, args, held, path, entries, exit_status, lock_failed,
                   nfaults, failed, examined, rmdirs, dirs0, files0>>

\* one iteration of "for filename in filenames", with or without an I/O error
examine_file(p) ==
    /\ pc[p] = "files"
    /\ \E filename \in filenames[p], fault \in (IF nfaults < MaxFaults THEN FaultPoints ELSE {}) \cup {"none"} :
          LET filepath == Join(dirpath[p], <<filename>>)
              r        == process_file(args[p], dirs, files, filepath, fault)
          IN  /\ fault # "none" => r # process_file(args[p], dirs, files, filepath, "none")
              /\ nfaults' = IF fault # "none" THEN nfaults + 1 ELSE nfaults
              /\ dirs' = r.dirs
              /\ files' = r.files
              /\ entries' = [entries EXCEPT ![p] = entries[p] \o r.entry]
              /\ filenames' = [filenames EXCEPT ![p] = filenames[p] \ {filename}]
              /\ examined' = [examined EXCEPT ![p] = examined[p] \cup {filepath}]
              /\ failed' = [failed EXCEPT ![p] =
                     IF r.kind \in {"exploded", "delete_failed"}
                     THEN failed[p] \cup {filepath} ELSE failed[p]]
              /\ pc' = [pc EXCEPT ![p] = next_pc(r.kind)]
              /\ last' = Step(p, "file", filepath, r.kind, r.dup, r.content)
    /\ UNCHANGED <<args, held, pending, dirpath, path, exit_status, lock_failed,
                   listed, rmdirs, dirs0, files0>>

\* the loop over filenames is over: "path = dirpath"
begin_cleanup(p) ==
    /\ pc[p] = "files"
    /\ filenames[p] = {}
    /\ path' = [path EXCEPT ![p] = dirpath[p]]
    /\ pc' = [pc EXCEPT ![p] = "cleanup"]
    /\ last' = Step(p, "begin_cleanup", <<>>, "none", FALSE, 0)
    /\ UNCHANGED <<dirs, files, args, held, pending, dirpath, filenames, entries,
                   exit_status, lock_failed, nfaults, failed, examined, listed, rmdirs,
                   dirs0, files0>>

\* one test and one iteration of "while path != input_root"
cleanup_step(p) ==
    /\ pc[p] = "cleanup"
    /\ IF path[p] = args[p].input_root
       THEN /\ pc' = [pc EXCEPT ![p] = "walk"]
            /\ UNCHANGED <<dirs, path, rmdirs>>
       ELSE IF args[p].dry_run
       THEN /\ path' = [path EXCEPT ![p] = Split(path[p])[1]]
            /\ UNCHANGED <<dirs, pc, rmdirs>>
       ELSE LET r == rmdir(dirs, files, path[p])
            IN  /\ rmdirs' = [rmdirs EXCEPT ![p] = rmdirs[p] \cup {path[p]}]
                /\ dirs' = r.dirs
                /\ IF r.err = "ok"
                   THEN /\ path' = [path EXCEPT ![p] = Split(path[p])[1]]
                        /\ UNCHANGED pc
                   ELSE /\ pc' = [pc EXCEPT ![p] = "walk"]
                        /\ UNCHANGED path
    /\ last' = Step(p, "cleanup", path[p], "none", FALSE, 0)
    /\ UNCHANGED <<files, args, held, pending, dirpath, filenames, entries,
                   exit_status, lock_failed, nfaults, failed, examined, listed,
                   dirs0, files0>>

organize(p) == walk_next(p) \/ examine_file(p) \/ begin_cleanup(p) \/ cleanup_step(p)

Next == organize(1)

Spec == Init /\ [][Next]_vars

\* ------------------------------------------------------- the command

LockSuffix ==
    <<".","p","h","o","t","o","_","o","r","g","a","n","i","z","e","_","l","o","c","k">>

LogName ==
    <<".","p","h","o","t","o","_","o","r","g","a","n","i","z","e",".","l","o","g">>

\* os.path.join('/', 'tmp', input_directory.replace(os.sep, '_') + '.photo_organize_lock')
lock_path_of(input_directory) ==
    Join3(<<SEP>>, << <<"t","m","p">> >>, << ReplaceSep(input_directory, "_") \o LockSuffix >>)

\* the exit status of a run that was ended by an uncaught exception
uncaught_status == 1

\* LockAcquireError left uncaught
lock_failure_status_uncaught == uncaught_status

\* the exit status of a run that could not take the lock: the except clause
\* logs at debug level and the script runs off its end
lock_failure_status == 0

\* Argument parsing and logger set-up: RotatingFileHandler opens (and so
\* creates) .photo_organize.log in the input directory, before any lock.
setup(p) ==
    /\ pc[p] = "start"
    /\ LET log == Join(args[p].input_root, <<LogName>>)
       IN  IF ~isdir(dirs, args[p].input_root)
           THEN /\ pc' = [pc EXCEPT ![p] = "exit"]
                /\ exit_status' = [exit_status EXCEPT ![p] = <<uncaught_status>>]
                /\ UNCHANGED files
           ELSE /\ pc' = [pc EXCEPT ![p] = "lock"]
                /\ files' = IF isfile(files, log) THEN files
                            ELSE FPut(files, Canon(log), LogContent)
                /\ UNCHANGED exit_status
    /\ last' = Step(p, "setup", <<>>, "none", FALSE, 0)
    /\ UNCHANGED <<dirs, args, held, pending, dirpath, filenames, path, entries,
                   lock_failed, nfaults, failed, examined, listed, rmdirs, dirs0, files0>>

\* BlockLockAndDropIt.__enter__: fcntl.lockf(LOCK_EX | LOCK_NB) on the lock
\* file.  It fails at once when another process holds a lock on that file;
\* LockAcquireError is then caught by the command, which ends.  Otherwise
\* the with-body starts organize().
acquire(p) ==
    /\ pc[p] = "lock"
    /\ LET lock_path == lock_path_of(args[p].input_root)
       IN  IF \E q \in Procs \ {p} : <<lock_path, q>> \in held
           THEN /\ lock_failed' = [lock_failed EXCEPT ![p] = TRUE]
                /\ pc' = [pc EXCEPT ![p] = "exit"]
                /\ exit_status' = [exit_status EXCEPT ![p] = <<lock_failure_status>>]
                /\ UNCHANGED <<held, pending>>
           ELSE /\ held' = held \cup {<<lock_path, p>>}
                /\ pc' = [pc EXCEPT ![p] = "walk"]
                /\ pending' = [pending EXCEPT ![p] = <<args[p].input_root>>]
                /\ UNCHANGED <<lock_failed, exit_status>>
    /\ last' = Step(p, "acquire", <<>>, "none", FALSE, 0)
    /\ UNCHANGED <<dirs, files, args, dirpath, filenames, path, entries,
                   nfaults, failed, examined, listed, rmdirs, dirs0, files0>>

\* organize() is exhausted: __exit__ unlocks and closes, the script ends
release(p) ==
    /\ pc[p] = "done"
    /\ \E l \in held : l[2] = p
    /\ held' = {l \in held : l[2] # p}
    /\ pc' = [pc EXCEPT ![p] = "exit"]
    /\ exit_status' = [exit_status EXCEPT ![p] = <<0>>]
    /\ last' = Step(p, "release", <<>>, "none", FALSE, 0)
    /\ UNCHANGED <<dirs, files, args, pending, dirpath, filenames, path, entries,
                   lock_failed, nfaults, failed, examined, listed, rmdirs, dirs0, files0>>

\* two invocations of the command on the input directory /w/x/p, the first
\* naming it x/p and the second in any of the ways, with /w/o as the output
\* directory
InitMain ==
    /\ \E in2 \in InputForms, copy \in BOOLEAN, dry_run \in BOOLEAN :
          args = [p \in Procs |-> Args(IF p = 1 THEN << <<"x">>, SEP, <<"p">> >> ELSE in2,
                                       << <<"o">> >>, copy, dry_run, FALSE)]
    /\ \E a \in {1, 2}, b \in {0, 1} :
          files = InitialFiles(args[1].output_root, a, b, FALSE, FALSE, FALSE)
    /\ dirs = InitialDirs(files)
    /\ pc = [p \in Procs |-> "start"]
    /\ pending = [p \in Procs |-> <<>>]
    /\ InitCommon

NextMain == \E p \in Procs : setup(p) \/ acquire(p) \/ organize(p) \/ release(p)

SpecMain == InitMain /\ [][NextMain]_vars

\* ---------------------------------------------------------- properties

Range(q) == {q[i] : i \in 1..Len(q)}

Sources(p) == {e.source : e \in Range(entries[p])}

Under(cp, root) == Len(root) <= Len(cp) /\ SubSeq(cp, 1, Len(root)) = root

StrictlyUnder(cp, root) == Under(cp, root) /\ cp # root

InOrganize(p) == pc[p] \in {"walk", "files", "cleanup"}

Untouched(p) ==
    examined[p] = {} /\ listed[p] = {} /\ entries[p] = <<>> /\ rmdirs[p] = {}

\* C1. Lock exclusion: an invocation that fails to take the lock never enters
\* organize() and mutates nothing, and no two invocations whose input roots
\* are the same directory are inside organize() at the same time.
C1_LockExclusion ==
    /\ \A p \in Procs : lock_failed[p] => ~InOrganize(p) /\ Untouched(p)
    /\ \A p, q \in Procs :
          (p # q /\ Canon(args[p].input_root) = Canon(args[q].input_root))
          => ~(InOrganize(p) /\ InOrganize(q))

\* What does hold of the lock: exclusion between invocations that were given
\* the same input_directory string.
LockExclusionSameArgument ==
    \A p, q \in Procs :
        (p # q /\ args[p].input_root = args[q].input_root)
        => ~(InOrganize(p) /\ InOrganize(q))

\* C2. Duplicate skip: with delete_duplicates=False, a file whose destination
\* already holds a file of the same hash is not moved or copied, gets no
\* ProcessedEntry, and stays in place.
C2_DuplicateSkipped ==
    (last.op = "file" /\ last.dup /\ ~args[last.p].delete_duplicates)
    => /\ last.kind # "relocated"
       /\ last.src \notin Sources(last.p)
       /\ isfile(files, last.src)
       /\ files[Canon(last.src)] = last.content

ExpectedBelowRoot(c) ==
    CASE c = 1 ->
           << <<"2","0","1","4">>, <<"0","6">>,
              <<"2","0","1","4","-","0","6","-","0","1","T","1","0",":","0","0",":","0","0",
                "_","h","1",".","j","p","g">> >>
      [] c = 2 ->
           << <<"n","o","_","m","e","t","a","d","a","t","a">>, <<"h","2",".","j","p","g">> >>
      [] c = 3 ->
           << <<"0","9","8","7">>, <<"1","1">>,
              <<"0","9","8","7","-","1","1","-","2","3","T","0","9",":","0","5",":","0","7",
                "_","h","3",".","j","p","g">> >>

\* C4. Destination derivation: the ProcessedEntry just yielded names the file
\* examined as its source and, as its destination, the output root followed by
\* year/month/isoformat_hash.ext (all zero-padded, the extension lower-cased),
\* or by no_metadata/hash.ext when no timestamp was extracted: a function of
\* the content and the extension alone.
C4_DestinationDerivation ==
    (last.op = "file" /\ last.kind = "relocated")
    => LET e == entries[last.p][Len(entries[last.p])]
       IN  /\ e.source = last.src
           /\ Parts(e.destination) = Parts(args[last.p].output_root) \o ExpectedBelowRoot(last.content)
           /\ (e.destination[1] = SEP) = (args[last.p].output_root[1] = SEP)

\* s/b.JPG, of the year 987, has just been filed, after a file with no
\* timestamp
C4_Witness ==
    /\ last.op = "file" /\ last.kind = "relocated" /\ last.content = 3
    /\ SplitExt(last.src)[2] = <<".","J","P","G">>
    /\ \E e \in Range(entries[1]) :
          Parts(e.destination) = Parts(args[1].output_root) \o ExpectedBelowRoot(2)

\* the files a run would relocate: those listed whose iteration did not raise
\* and that are not duplicates to delete
WouldRelocate(p) ==
    {f \in listed[p] :
        /\ f \notin failed[p]
        /\ ~(/\ args[p].delete_duplicates
             /\ isfile(files, f)
             /\ LET c == files[Canon(f)]
                IN  is_duplicate(files,
                        destination_path_of(args[p].output_root, creation_date(c),
                                            file_sha1(c), extension_of(f)),
                        file_sha1(c)))}

\* the loop over the filenames of the directory being visited is not under way
BetweenDirectories(p) == pc[p] # "files" \/ filenames[p] = {}

C7_CleanupBound ==
    /\ \A q \in rmdirs[1] : q # <<>> /\ StrictlyUnder(Canon(q), InputDir)
    /\ \A d \in dirs0 \ dirs : StrictlyUnder(d, InputDir)

\* the two parts of C7 that fail most visibly: the input root is kept, and so
\* is every directory outside it
InputRootKept == InputDir \in dirs

OutsideKept == \A d \in dirs0 \ dirs : Under(d, InputDir)

Unsupported(cp) == Lower(SplitExt(<<cp[Len(cp)]>>)[2]) \notin supported_extensions

\* C8. Unsupported extensions: every file under the input root whose
\* extension is not in the allow-list is where it was with the content it had,
\* is the source of no ProcessedEntry, and no file created by the run holds
\* its content.
C8_UnsupportedUntouched ==
    \A q \in DOMAIN files0 :
        (Under(q, InputDir) /\ Unsupported(q))
        => /\ q \in DOMAIN files /\ files[q] = files0[q]
           /\ \A e \in Range(entries[1]) : Canon(e.source) # q
           /\ \A n \in (DOMAIN files) \ (DOMAIN files0) : files[n] # files0[q]

\* the run ended after passing over a file with an unsupported extension
\* and relocating another
C8_Witness ==
    /\ pc[1] = "done"
    /\ \E f \in examined[1] : Unsupported(Canon(f))
    /\ entries[1] # <<>>
    /\ ~args[1].dry_run

\* C9. No content loss: in a run that is no dry run, every content held by a
\* file before the run is held by some file at every later time.
C9_NoContentLoss ==
    ~args[1].dry_run
    => \A q \in DOMAIN files0 : \E n \in DOMAIN files : files[n] = files0[q]

\* C10. Termination: organize() never reaches a state that a step of its
\* loops leaves as it is.  The loop over filenames has a filename left to
\* examine or goes on to the cleanup, and one test and iteration of the
\* cleanup loop changes the state.
C10_Terminates ==
    /\ pc[1] = "files" => (filenames[1] # {} \/ ENABLED <<begin_cleanup(1)>>_vars)
    /\ pc[1] = "cleanup" => ENABLED <<cleanup_step(1)>>_vars

=============================================================================
